---------------------------- MODULE Spec2Model ----------------------------
(***************************************************************************)
(* palbot-rs: a Discord bot answering the `pal` slash command from a       *)
(* remote REST API, with fuzzy autocompletion of Pal names.                *)
(*                                                                         *)
(* The model covers src/main.rs (State::new, State::get_pal,               *)
(* autocomplete_pal, reply_with_error, pal, the setup closure of main)     *)
(* and src/autocomplete.rs (AutoCompleteEngine).  The engine delegates to  *)
(* the simsearch crate (SimSearch::new / insert / search with the default  *)
(* SearchOptions: case-insensitive, whitespace tokenisation, Jaro-Winkler  *)
(* similarity from strsim, threshold 0.8); that behaviour is modelled      *)
(* here with the scores computed as IEEE-754 binary64 values.              *)
(*                                                                         *)
(* Strings are sequences of one-character strings.                         *)
(***************************************************************************)
EXTENDS Integers, Sequences, FiniteSets, TLC

VARIABLES
    phase,      \* "starting" | "running" | "failed": the setup closure of main
    listing,    \* the names the upstream listing endpoint returned to setup
    pal_names,  \* State.pal_names
    ac_eng,     \* State.ac_eng (the simsearch index)
    h           \* per handler slot: the command invocation running in it

vars == <<phase, listing, pal_names, ac_eng, h>>

----------------------------------------------------------------------------
(* Bounds of the model *)

\* number of command invocations the runtime runs concurrently
MaxSlots == 2

\* longest list of names the listing endpoint returns
MaxNames == 3

Slots == 1..MaxSlots

----------------------------------------------------------------------------
(* Characters and strings *)

\* byte value of each character used (Rust compares Strings bytewise)
Code ==
    " " :> 32 @@ "A" :> 65 @@ "B" :> 66 @@ "E" :> 69 @@ "P" :> 80 @@
    "a" :> 97 @@ "b" :> 98 @@ "e" :> 101 @@ "l" :> 108 @@ "n" :> 110 @@
    "p" :> 112 @@ "x" :> 120

IsUpper(c) == Code[c] >= 65 /\ Code[c] <= 90

\* char::to_lowercase on the ASCII letters used
LowerChar(c) ==
    IF IsUpper(c) THEN CHOOSE d \in DOMAIN Code : Code[d] = Code[c] + 32 ELSE c

\* str::to_lowercase
to_lowercase(s) == [i \in 1..Len(s) |-> LowerChar(s[i])]

\* Ord for String: lexicographic on bytes, a proper prefix is smaller
RECURSIVE StrLess(_, _)
StrLess(a, b) ==
    IF Len(b) = 0 THEN FALSE
    ELSE IF Len(a) = 0 THEN TRUE
    ELSE IF Code[Head(a)] # Code[Head(b)] THEN Code[Head(a)] < Code[Head(b)]
    ELSE StrLess(Tail(a), Tail(b))

\* insertion of x into a sorted sequence, after the elements not greater than it
RECURSIVE InsertSorted(_, _)
InsertSorted(x, s) ==
    IF Len(s) = 0 THEN <<x>>
    ELSE IF StrLess(x, Head(s)) THEN <<x>> \o s
    ELSE <<Head(s)>> \o InsertSorted(x, Tail(s))

RECURSIVE SortFrom(_, _)
SortFrom(s, acc) ==
    IF Len(s) = 0 THEN acc ELSE SortFrom(Tail(s), InsertSorted(Head(s), acc))

\* faulty variant: the list is kept in the order received
SortNamesKeepOrder(s) == s

\* Vec<String>::sort
SortNames(s) == SortFrom(s, <<>>)

Range(s) == {s[i] : i \in 1..Len(s)}

----------------------------------------------------------------------------
(* urlencoding::encode, as called by get_pal *)

HexDigits == <<"0", "1", "2", "3", "4", "5", "6", "7", "8", "9",
               "A", "B", "C", "D", "E", "F">>

\* the unreserved characters among those used: ASCII letters
IsUnreserved(c) ==
    \/ Code[c] >= 65 /\ Code[c] <= 90
    \/ Code[c] >= 97 /\ Code[c] <= 122

EncodeChar(c) ==
    IF IsUnreserved(c) THEN <<c>>
    ELSE <<"%", HexDigits[(Code[c] \div 16) + 1], HexDigits[(Code[c] % 16) + 1]>>

RECURSIVE encode(_)
encode(s) == IF Len(s) = 0 THEN <<>> ELSE EncodeChar(Head(s)) \o encode(Tail(s))

----------------------------------------------------------------------------
(* Natural numbers of any size: little-endian sequences of limbs below     *)
(* Base, without leading zero limbs; <<>> is 0.  They carry the 53-bit     *)
(* significands of the f64 scores and the wider exact intermediate results.*)

Base == 2^14

\* the element of a one-element set; The({e : v \in {x}}) is e with v standing
\* for the value of x, computed once
The(S) == CHOOSE r \in S : TRUE

Max(a, b) == IF a >= b THEN a ELSE b
Min(a, b) == IF a <= b THEN a ELSE b

RECURSIVE BTrim(_)
BTrim(x) ==
    IF Len(x) = 0 THEN x
    ELSE IF x[Len(x)] = 0 THEN BTrim(SubSeq(x, 1, Len(x) - 1))
    ELSE x

BLimb(x, i) == IF i <= Len(x) THEN x[i] ELSE 0

RECURSIVE BFromInt(_)
BFromInt(n) == IF n = 0 THEN <<>> ELSE <<n % Base>> \o BFromInt(n \div Base)

RECURSIVE BAddFrom(_, _, _, _)
BAddFrom(x, y, i, carry) ==
    IF i > Len(x) /\ i > Len(y)
    THEN (IF carry = 0 THEN <<>> ELSE <<carry>>)
    ELSE LET v == BLimb(x, i) + BLimb(y, i) + carry
         IN  <<v % Base>> \o BAddFrom(x, y, i + 1, v \div Base)

BAdd(x, y) == The({BAddFrom(a, b, 1, 0) : a \in {x}, b \in {y}})

\* x - y for x >= y
RECURSIVE BSubFrom(_, _, _, _)
BSubFrom(x, y, i, borrow) ==
    IF i > Len(x) THEN <<>>
    ELSE LET v == BLimb(x, i) - BLimb(y, i) - borrow
         IN  IF v < 0 THEN <<v + Base>> \o BSubFrom(x, y, i + 1, 1)
             ELSE <<v>> \o BSubFrom(x, y, i + 1, 0)

BSub(x, y) == The({BTrim(r) : r \in {BSubFrom(a, b, 1, 0) : a \in {x}, b \in {y}}})

\* x * k for 0 <= k <= Base
RECURSIVE BMulSmallFrom(_, _, _, _)
BMulSmallFrom(x, k, i, carry) ==
    IF i > Len(x) THEN BFromInt(carry)
    ELSE LET v == x[i] * k + carry
         IN  <<v % Base>> \o BMulSmallFrom(x, k, i + 1, v \div Base)

BMulSmall(x, k) == The({BTrim(r) : r \in {BMulSmallFrom(a, k, 1, 0) : a \in {x}}})

\* x * Base^n
BShiftLimbs(x, n) == IF Len(x) = 0 THEN x ELSE [i \in 1..n |-> 0] \o x

RECURSIVE BMulFrom(_, _, _)
BMulFrom(x, y, i) ==
    IF i > Len(y) THEN <<>>
    ELSE BAdd(The({BShiftLimbs(p, i - 1) : p \in {BMulSmall(x, y[i])}}),
              BMulFrom(x, y, i + 1))

BMul(x, y) == The({BTrim(r) : r \in {BMulFrom(a, b, 1) : a \in {x}, b \in {y}}})

\* <<x div k, x mod k>> for 0 < k <= Base, from the top limb down
RECURSIVE BDivSmallFrom(_, _, _, _)
BDivSmallFrom(x, k, i, rem) ==
    IF i = 0 THEN <<<<>>, rem>>
    ELSE LET v == rem * Base + x[i]
         IN  The({<<Append(rest[1], v \div k), rest[2]>> :
                    rest \in {BDivSmallFrom(x, k, i - 1, v % k)}})

BDivSmall(x, k) ==
    The({<<BTrim(r[1]), r[2]>> : r \in {BDivSmallFrom(v, k, Len(v), 0) : v \in {x}}})

\* -1, 0, 1 as x is less than, equal to, greater than y
RECURSIVE BCmpFrom(_, _, _)
BCmpFrom(x, y, i) ==
    IF i = 0 THEN 0
    ELSE IF x[i] < y[i] THEN -1
    ELSE IF x[i] > y[i] THEN 1
    ELSE BCmpFrom(x, y, i - 1)

BCmp(x, y) ==
    The({IF Len(a) < Len(b) THEN -1
         ELSE IF Len(a) > Len(b) THEN 1
         ELSE BCmpFrom(a, b, Len(a)) : a \in {x}, b \in {y}})

\* x * 2^n
BShl(x, n) == The({BMulSmall(BShiftLimbs(a, n \div 14), 2^(n % 14)) : a \in {x}})

\* x div 2^n
BShr(x, n) ==
    The({IF n \div 14 >= Len(a) THEN <<>>
         ELSE BDivSmall(SubSeq(a, (n \div 14) + 1, Len(a)), 2^(n % 14))[1] :
            a \in {x}})

RECURSIVE IntBits(_)
IntBits(n) == IF n = 0 THEN 0 ELSE 1 + IntBits(n \div 2)

\* the number of bits of x
BBits(x) ==
    The({IF Len(a) = 0 THEN 0 ELSE (Len(a) - 1) * 14 + IntBits(a[Len(a)]) : a \in {x}})

BIsOdd(x) == Len(x) > 0 /\ x[1] % 2 = 1

----------------------------------------------------------------------------
(* f64 values >= 0: [m, e] stands for m * 2^e with m of exactly 53 bits,   *)
(* or m = <<>> for 0.0.  Every operation rounds its exact result to the    *)
(* nearest such value, ties to the even significand, as IEEE 754 does.     *)

FZero == [m |-> <<>>, e |-> 0]

\* the f64 nearest to (n + d) * 2^e, where 0 < d < 1 if sticky, else d = 0;
\* a sticky n has more than 54 bits
FRound(n, e, sticky) ==
    LET Round(v, bits) ==
            IF bits = 0 THEN FZero
            ELSE IF bits <= 53 THEN [m |-> BShl(v, 53 - bits), e |-> e - (53 - bits)]
            ELSE
                LET sh == bits - 53
                    Up(q) ==
                        LET c == BCmp(BSub(v, BShl(q, sh)), BShl(<<1>>, sh - 1))
                        IN  The({d > 0 \/ (d = 0 /\ (sticky \/ BIsOdd(q))) : d \in {c}})
                    Carry(r) ==
                        IF BBits(r) > 53 THEN [m |-> BShr(r, 1), e |-> e + sh + 1]
                        ELSE [m |-> r, e |-> e + sh]
                IN  The({Carry(r) :
                           r \in {IF Up(q) THEN BAdd(q, <<1>>) ELSE q :
                                     q \in {BShr(v, sh)}}})
    IN  The({Round(v, BBits(v)) : v \in {n}})

\* n as f64, for a small integer n >= 0
FInt(n) == FRound(BFromInt(n), 0, FALSE)

\* x / k for an f64 x and an integer 0 < k <= Base (k as f64 is exact)
FDivSmall(x, k) ==
    The({IF a = FZero THEN FZero
         ELSE The({FRound(qr[1], a.e - 28, qr[2] # 0) :
                     qr \in {BDivSmall(BShl(a.m, 28), k)}}) : a \in {x}})

\* a as f64 / b as f64 for small integers
FDivInt(a, b) == FDivSmall(FInt(a), b)

FAdd(x, y) ==
    The({IF a = FZero THEN b
         ELSE IF b = FZero THEN a
         ELSE LET e == Min(a.e, b.e)
              IN  FRound(BAdd(BShl(a.m, a.e - e), BShl(b.m, b.e - e)), e, FALSE) :
            a \in {x}, b \in {y}})

FGreater(x, y) ==
    The({IF a = FZero THEN FALSE
         ELSE IF b = FZero THEN TRUE
         ELSE a.e > b.e \/ (a.e = b.e /\ BCmp(a.m, b.m) > 0) :
            a \in {x}, b \in {y}})

\* x - y for x >= y
FSub(x, y) ==
    The({IF b = FZero THEN a
         ELSE LET e == Min(a.e, b.e)
              IN  FRound(BSub(BShl(a.m, a.e - e), BShl(b.m, b.e - e)), e, FALSE) :
            a \in {x}, b \in {y}})

FMul(x, y) ==
    The({IF a = FZero \/ b = FZero THEN FZero
         ELSE FRound(BMul(a.m, b.m), a.e + b.e, FALSE) :
            a \in {x}, b \in {y}})

----------------------------------------------------------------------------
(* strsim::jaro_winkler(a, b), as SimSearch::search calls it *)

\* the first index j in lo..hi with b[j] = c and j not flagged, or 0
FirstMatch(c, b, lo, hi, flagged) ==
    LET cand == {j \in lo..hi : b[j] = c /\ j \notin flagged}
    IN  IF cand = {} THEN 0 ELSE CHOOSE j \in cand : \A k \in cand : j <= k

\* the matching loop over a: <<a_flags, b_flags>> as sets of 1-based indices
RECURSIVE JaroScan(_, _, _, _, _, _)
JaroScan(a, b, range, i, aflags, bflags) ==
    IF i > Len(a) THEN <<aflags, bflags>>
    ELSE
        LET lo == IF i - 1 > range THEN i - range ELSE 1
            hi == Min(Len(b), i + range)
        IN  The({IF j = 0
                 THEN JaroScan(a, b, range, i + 1, aflags, bflags)
                 ELSE JaroScan(a, b, range, i + 1, aflags \cup {i}, bflags \cup {j}) :
                    j \in {IF lo > hi THEN 0
                           ELSE FirstMatch(a[i], b, lo, hi, bflags)}})

\* the flagged elements of s, in order
Flagged(s, flags) ==
    LET pick == SelectSeq([i \in 1..Len(s) |-> i], LAMBDA i : i \in flags)
    IN  [k \in 1..Len(pick) |-> s[pick[k]]]

\* the flagged elements of a and of b, paired in order, that differ; halved
Transpositions(a, b, aflags, bflags) ==
    LET fa == Flagged(a, aflags)
        fb == Flagged(b, bflags)
    IN  Cardinality({k \in 1..Len(fa) : fa[k] # fb[k]}) \div 2

jaro(a, b) ==
    IF Len(a) = 0 /\ Len(b) = 0 THEN FInt(1)
    ELSE IF Len(a) = 0 \/ Len(b) = 0 THEN FZero
    ELSE
        LET half == Max(Len(a), Len(b)) \div 2
            range == IF half > 0 THEN half - 1 ELSE 0
            Sim(m, t) ==
                IF m = 0 THEN FZero
                ELSE FDivSmall(FAdd(FAdd(FDivInt(m, Len(a)), FDivInt(m, Len(b))),
                                    FDivInt(m - t, m)),
                               3)
        IN  The({The({Sim(m, t) : m \in {Cardinality(fl[1])},
                                 t \in {Transpositions(a, b, fl[1], fl[2])}}) :
                    fl \in {JaroScan(a, b, range, 1, {}, {})}})

\* the length of the common prefix, of the first 4 characters of a at most
RECURSIVE CommonPrefix(_, _, _)
CommonPrefix(a, b, left) ==
    IF left = 0 \/ Len(a) = 0 \/ Len(b) = 0 \/ Head(a) # Head(b) THEN 0
    ELSE 1 + CommonPrefix(Tail(a), Tail(b), left - 1)

\* sim + 0.1 * prefix_length * (1.0 - sim) when sim > 0.7, else sim
\* the f64 literals 0.7, 0.1 and 1.0 of jaro_winkler
BoostAbove == FDivInt(7, 10)
PrefixWeight == FDivInt(1, 10)
FOne == FInt(1)

jaro_winkler(a, b) ==
    The({IF FGreater(sim, BoostAbove)
         THEN FAdd(sim, FMul(FMul(PrefixWeight, FInt(CommonPrefix(a, b, 4))),
                             FSub(FOne, sim)))
         ELSE sim : sim \in {jaro(a, b)}})

----------------------------------------------------------------------------
(* simsearch::SimSearch with SearchOptions::default(), as used by          *)
(* AutoCompleteEngine                                                      *)

\* SearchOptions::default().threshold = 0.8
threshold == FDivInt(4, 5)

\* str::split_whitespace on the characters used: maximal runs without " "
RECURSIVE SplitWs(_, _)
SplitWs(s, cur) ==
    IF Len(s) = 0 THEN (IF Len(cur) = 0 THEN <<>> ELSE <<cur>>)
    ELSE IF Head(s) = " "
         THEN (IF Len(cur) = 0 THEN <<>> ELSE <<cur>>) \o SplitWs(Tail(s), <<>>)
         ELSE SplitWs(Tail(s), Append(cur, Head(s)))

\* SimSearch::tokenize of one string: lowercase, split on whitespace
tokenize(s) == SplitWs(to_lowercase(s), <<>>)

\* SimSearch::insert(id, content) with content = id: an earlier entry of the
\* same id is deleted, the new one takes the next id_num
insert(eng, name) ==
    [id_next |-> eng.id_next + 1,
     entries |-> {e \in eng.entries : e.id # name}
                 \cup {[num |-> eng.id_next, id |-> name,
                        tokens |-> Range(tokenize(name))]}]

RECURSIVE InsertAll(_, _)
InsertAll(eng, data) ==
    IF Len(data) = 0 THEN eng ELSE InsertAll(insert(eng, Head(data)), Tail(data))

\* AutoCompleteEngine::new(data)
AutoCompleteEngineNew(data) == InsertAll([id_next |-> 0, entries |-> {}], data)

\* Vec::dedup on a sorted vector: consecutive repeats are dropped
RECURSIVE Dedup(_)
Dedup(s) ==
    IF Len(s) <= 1 THEN s
    ELSE IF s[1] = s[2] THEN Dedup(Tail(s))
    ELSE <<s[1]>> \o Dedup(Tail(s))

\* the pattern tokens of a query: tokenised, sorted, deduplicated
PatternTokens(query) == Dedup(SortNames(tokenize(query)))

\* score > self.option.threshold
Passes(score) == FGreater(score, threshold)

\* token_scores[token] after the loops: the score against the last pattern
\* token (in sorted order) that passes the threshold; 0.0 when none does
RECURSIVE TokenScore(_, _, _)
TokenScore(token, pts, acc) ==
    IF Len(pts) = 0 THEN acc
    ELSE The({TokenScore(token, Tail(pts), IF Passes(sc) THEN sc ELSE acc) :
                sc \in {jaro_winkler(token, Head(pts))}})

\* token_scores after the loops: the indexed tokens that pass against some
\* pattern token, each with its score
token_scores(eng, pts) ==
    LET all == UNION {e.tokens : e \in eng.entries}
        scored == {<<tk, TokenScore(tk, pts, FZero)>> : tk \in all}
    IN  The({[tk \in {p[1] : p \in {x \in sc : x[2] # FZero}} |->
                  The({p[2] : p \in {x \in sc : x[1] = tk}})] : sc \in {scored}})

\* the orders in which iterating a HashMap with the keys S can yield them
IterOrders(S) ==
    {o \in [1..Cardinality(S) -> S] :
        \A i, j \in 1..Cardinality(S) : o[i] = o[j] => i = j}

\* result_scores[id] for an entry with the tokens toks: 0.0, then += score
\* for each of its tokens in token_scores, in the order of the iteration
RECURSIVE SumScores(_, _, _)
SumScores(toks, order, scores) ==
    IF Len(order) = 0 THEN FZero
    ELSE LET before == SumScores(toks, SubSeq(order, 1, Len(order) - 1), scores)
             tk == order[Len(order)]
         IN  IF tk \in toks THEN FAdd(before, scores[tk]) ELSE before

\* result_scores: the entries with at least one token in token_scores, each
\* with the sum of its tokens' scores
ResultScores(eng, order, scores) ==
    {[num |-> e.num, id |-> e.id, score |-> SumScores(e.tokens, order, scores)] :
        e \in {x \in eng.entries : x.tokens \cap DOMAIN scores # {}}}

\* faulty variant: a ranking that puts the lowest (score, id_num) first
RanksBeforeAscending(x, y) ==
    \/ FGreater(y.score, x.score)
    \/ x.score = y.score /\ x.num < y.num

\* sort_by(|lhs, rhs| rhs.partial_cmp(lhs)) on (score, id_num): descending
RanksBefore(x, y) ==
    \/ FGreater(x.score, y.score)
    \/ x.score = y.score /\ x.num > y.num

RECURSIVE Ranked(_)
Ranked(rs) ==
    IF rs = {} THEN <<>>
    ELSE LET top == CHOOSE x \in rs : \A y \in rs \ {x} : RanksBefore(x, y)
         IN  <<top>> \o Ranked(rs \ {top})

\* the ids of a ranking
Ids(r) == [i \in 1..Len(r) |-> r[i].id]

\* SimSearch::search(pattern): the ids, best first; the set of the lists the
\* call can return, one for each order in which token_scores is iterated
\* (the sums are f64, and the order in which a sum of three or more scores
\* is taken can change its last bit)
search(eng, query) ==
    UNION {{Ids(Ranked(ResultScores(eng, o, scores))) : o \in IterOrders(DOMAIN scores)} :
              scores \in {token_scores(eng, PatternTokens(query))}}

\* AutoCompleteEngine::autocomplete(query)
autocomplete(eng, query) == search(eng, query)

----------------------------------------------------------------------------
(* Inputs *)

Apple == <<"A", "p", "p", "l", "e">>
Apex == <<"A", "p", "e", "x">>
Banana == <<"B", "a", "n", "a", "n", "a">>
AppleApex == <<"A", "p", "p", "l", "e", " ", "A", "p", "e", "x">>

\* the names of tests::test_autocomplete
TestNames == <<Apple, Apex, Banana>>

\* the names a listing is made of: those of the test and one of two words
NameUniverse == {Apple, Apex, Banana, AppleApex}

\* every list of at most n names, repeats included
Listings(n) == UNION {[1..k -> NameUniverse] : k \in 0..n}

\* the listings the concurrent specification starts from
BotListings == {<<Banana, Apple, Apex>>}

\* what the user has typed so far into the pal argument
Queries ==
    {<<>>, <<"a", "p", "p", "l">>, <<"a", "p">>, <<"a">>, <<"A", "P", "E">>,
     <<"n", "a", "n", "a">>, <<"a", "p", "x", "e">>, <<"a", "p", " ", "b", "a", "n">>}

BotQueries == {<<>>, <<"a", "p">>, <<"a", "p", "p", "l">>}

\* the names submitted to the pal command
PalArgs == {<<"A", "p", " ", "e", "x">>}

\* Pal records of the upstream API (the fields the embed title, number and
\* type label are built from)
Pal1 == [id |-> 1, name |-> Apex, types |-> <<"neutral">>]
Pal2 == [id |-> 2, name |-> Apple, types |-> <<"fire", "dark">>]

\* Pal::default()
DefaultPal == [id |-> 0, name |-> <<>>, types |-> <<>>]

\* what reqwest::get(url).await gives back to get_pal: a transport error, or
\* a response with its status, the body not yet read
Responses ==
    {[io |-> "err", status |-> "", body |-> "none", content |-> <<>>]}
    \cup {[io |-> "ok", status |-> st, body |-> "unread", content |-> <<>>] :
             st \in {"200 OK", "401 Unauthorized", "404 Not Found"}}

\* what response.json::<APIResponse>().await gives back: a body that does
\* not decode, or an envelope with its content list
Bodies ==
    {[body |-> "invalid", content |-> <<>>]}
    \cup {[body |-> "json", content |-> c] : c \in {<<>>, <<Pal1>>, <<Pal2, Pal1>>}}

----------------------------------------------------------------------------
(* PalError and the results of get_pal *)

NoErr == [kind |-> "none", detail |-> ""]
MissingContent == [kind |-> "MissingContent", detail |-> ""]
TokenExpired == [kind |-> "TokenExpired", detail |-> ""]
Reqwest(d) == [kind |-> "Reqwest", detail |-> d]
Unexpected(d) == [kind |-> "Unexpected", detail |-> d]
NoPalFound(d) == [kind |-> "NoPalFound", detail |-> d]

\* the thiserror Display of each variant, as a sequence of pieces (the
\* backquotes around the interpolated value are left out)
Display(err) ==
    CASE err.kind = "NoPalFound" -> <<"No Pal named ", err.detail, " was found">>
      [] err.kind = "Reqwest" -> <<"Error fetching from API: ", err.detail>>
      [] err.kind = "TokenExpired" -> <<"Discord token is expired">>
      [] err.kind = "MissingContent" -> <<"Missing content in response from API">>
      [] err.kind = "Unexpected" -> <<"Unexpected error: ", err.detail>>

Ok(pal) == [tag |-> "ok", pal |-> pal, err |-> NoErr]
Err(err) == [tag |-> "err", pal |-> DefaultPal, err |-> err]
NoResult == [tag |-> "none", pal |-> DefaultPal, err |-> NoErr]

\* faulty variant: an empty content list answered with a zero-valued record
first_or_default(content) ==
    IF Len(content) > 0 THEN Ok(content[1]) ELSE Ok(DefaultPal)

\* match parsed.content.first()
first_or_missing(content) ==
    IF Len(content) > 0 THEN Ok(content[1]) ELSE Err(MissingContent)

\* State::get_pal on the response of reqwest::get: the transport error, or
\* the match on the status; NoResult on 200, where the body is read next
status_result(resp) ==
    IF resp.io = "err" THEN Err(Reqwest("transport"))
    ELSE IF resp.status = "200 OK" THEN NoResult
    ELSE IF resp.status = "401 Unauthorized" THEN Err(TokenExpired)
    ELSE Err(Unexpected("Unexpected status code: " \o resp.status))

\* State::get_pal on the body of a 200 response
body_result(resp) ==
    IF resp.body = "json" THEN first_or_missing(resp.content)
    ELSE Err(Reqwest("decode"))

\* State::get_pal from the response on
get_pal_result(resp) ==
    IF status_result(resp) = NoResult THEN body_result(resp)
    ELSE status_result(resp)

\* faulty variant: the GET is sent a second time
IssueGetTwice(gets) == gets + 2

\* reqwest::get(url).await in get_pal: one request
IssueGet(gets) == gets + 1

\* the query get_pal sets on the URL
PalQuery(pal) == <<"n", "a", "m", "e", "=">> \o encode(pal)

\* faulty variant: no error kind is logged
ShouldLogNever(err) == FALSE

\* reply_with_error: every kind but NoPalFound is logged with error!
ShouldLog(err) == err.kind # "NoPalFound"

\* faulty variant: the reply is the bare error text
ErrorReplyBare(err) == [kind |-> "say", body |-> Display(err)]

\* reply_with_error: ctx.say(format!("**Error**: {error}"))
ErrorReply(err) == [kind |-> "say", body |-> <<"**Error**: ">> \o Display(err)]

\* the embed of the pal command: title, number and the type label
EmbedReply(pal) ==
    [kind |-> "embed",
     body |-> <<pal.name, pal.id, IF Len(pal.types) = 1 THEN "Type" ELSE "Types">>]

----------------------------------------------------------------------------
(* The handler slots *)

NoResp == [io |-> "none", status |-> "", body |-> "none", content |-> <<>>]
NoTask == [st |-> "none", query |-> <<>>, val |-> <<>>]
NoRet == [tag |-> "none", val |-> <<>>, err |-> NoErr]

\* a slot no command has run in
Fresh ==
    [pc |-> "idle", cmd |-> "none", arg |-> <<>>,
     url |-> <<>>, gets |-> 0, resp |-> NoResp, res |-> NoResult,
     task |-> NoTask, spawned |-> 0, searched |-> 0,
     ret |-> NoRet, log |-> <<>>, out |-> <<>>]

\* faulty variant: commands run whether or not setup has produced a State
CanHandleAlways == TRUE

\* a command handler runs with ctx.data(): the State the setup closure returned
CanHandle == phase = "running"

\* the slot is free for the next invocation
Free(s) == h[s].pc \in {"idle", "done"}

\* faulty variant: the empty query never takes the shortcut
is_empty_never(partial) == FALSE

\* partial.is_empty()
is_empty(partial) == Len(partial) = 0

\* faulty variant: the task reads the query of slot 1 in place of its own
TaskInputShared(s) == h[1].task.query

\* the query moved into the spawned task
TaskInput(s) == h[s].task.query

\* faulty variant: the join failure is swallowed without a log entry
join_result_silent(task) ==
    IF task.st = "ok" THEN [val |-> task.val, log |-> <<>>]
    ELSE [val |-> <<>>, log |-> <<>>]

\* match tokio::task::spawn(..).await { Ok(pals) => pals, Err(err) => .. }
join_result(task) ==
    IF task.st = "ok" THEN [val |-> task.val, log |-> <<>>]
    ELSE [val |-> <<>>, log |-> <<<<"Error fetching autocomplete: ", "JoinError">>>>]

----------------------------------------------------------------------------
(* Startup: the setup closure of main, State::new, get_pal_names *)

Init ==
    /\ phase = "starting"
    /\ listing = <<>>
    /\ pal_names = <<>>
    /\ ac_eng = [id_next |-> 0, entries |-> {}]
    /\ h = [s \in Slots |-> Fresh]

\* setup succeeds: get_pal_names returns the names of the listing, State::new
\* sorts them and builds the engine over the sorted list
Setup(L) ==
    /\ phase = "starting"
    /\ \E names \in L :
          /\ listing' = names
          /\ pal_names' = SortNames(names)
          /\ ac_eng' = AutoCompleteEngineNew(SortNames(names))
    /\ phase' = "running"
    /\ UNCHANGED h

\* setup fails: register_globally or get_pal_names returns an error (transport
\* or decoding), and the closure returns it in place of a State
SetupFail ==
    /\ phase = "starting"
    /\ phase' = "failed"
    /\ UNCHANGED <<listing, pal_names, ac_eng, h>>

----------------------------------------------------------------------------
(* autocomplete_pal *)

\* the call up to its first await: the empty query returns the names, any
\* other query is moved into a spawned task
AcStart(s, partial) ==
    /\ CanHandle
    /\ Free(s)
    /\ h' = [h EXCEPT ![s] =
            IF is_empty(partial)
            THEN [Fresh EXCEPT !.cmd = "autocomplete", !.arg = partial,
                               !.pc = "done",
                               !.ret = [tag |-> "vec", val |-> pal_names, err |-> NoErr]]
            ELSE [Fresh EXCEPT !.cmd = "autocomplete", !.arg = partial,
                               !.pc = "ac_await",
                               !.task = [st |-> "pending", query |-> partial,
                                         val |-> <<>>],
                               !.spawned = 1]]
    /\ UNCHANGED <<phase, listing, pal_names, ac_eng>>

\* the spawned task runs ac_eng.autocomplete(&partial)
AcTaskRun(s) ==
    /\ h[s].pc = "ac_await"
    /\ h[s].task.st = "pending"
    /\ \E ids \in autocomplete(ac_eng, TaskInput(s)) :
          h' = [h EXCEPT ![s].task.st = "ok",
                         ![s].task.val = ids,
                         ![s].searched = h[s].searched + 1]
    /\ UNCHANGED <<phase, listing, pal_names, ac_eng>>

\* the spawned task panics or is cancelled: the join handle yields a JoinError
AcTaskAbort(s) ==
    /\ h[s].pc = "ac_await"
    /\ h[s].task.st = "pending"
    /\ h' = [h EXCEPT ![s].task.st = "err"]
    /\ UNCHANGED <<phase, listing, pal_names, ac_eng>>

\* the await on the join handle returns and the handler returns its Vec
AcJoin(s) ==
    /\ h[s].pc = "ac_await"
    /\ h[s].task.st \in {"ok", "err"}
    /\ LET j == join_result(h[s].task)
       IN  h' = [h EXCEPT ![s].pc = "done",
                         ![s].ret = [tag |-> "vec", val |-> j.val, err |-> NoErr],
                         ![s].log = h[s].log \o j.log]
    /\ UNCHANGED <<phase, listing, pal_names, ac_eng>>

----------------------------------------------------------------------------
(* the pal command: get_pal, reply_with_error, the embed *)

\* pal calls get_pal, which builds the URL and sends the GET
PalStart(s, pal) ==
    /\ CanHandle
    /\ Free(s)
    /\ h' = [h EXCEPT ![s] =
            [Fresh EXCEPT !.cmd = "pal", !.arg = pal, !.pc = "pal_get",
                          !.url = PalQuery(pal), !.gets = IssueGet(0)]]
    /\ UNCHANGED <<phase, listing, pal_names, ac_eng>>

\* the pal command once get_pal has returned r: on Err reply_with_error logs
\* the error and says it, on Ok the embed is built and sent
after_get_pal(hs, resp, r) ==
    IF r.tag = "err"
    THEN [hs EXCEPT !.resp = resp, !.res = r, !.pc = "pal_say",
                    !.log = IF ShouldLog(r.err)
                            THEN Append(hs.log, Display(r.err))
                            ELSE hs.log,
                    !.out = Append(hs.out, ErrorReply(r.err))]
    ELSE [hs EXCEPT !.resp = resp, !.res = r, !.pc = "pal_send",
                    !.out = Append(hs.out, EmbedReply(r.pal))]

\* reqwest::get(url).await returns: on a transport error or a status other
\* than 200 get_pal returns the error; on 200 it goes on to read the body
PalResponse(s, resp) ==
    /\ h[s].pc = "pal_get"
    /\ h' = [h EXCEPT ![s] =
            IF status_result(resp) = NoResult
            THEN [h[s] EXCEPT !.resp = resp, !.pc = "pal_json"]
            ELSE after_get_pal(h[s], resp, status_result(resp))]
    /\ UNCHANGED <<phase, listing, pal_names, ac_eng>>

\* response.json().await returns on the 200 path and get_pal returns
PalBody(s, body) ==
    /\ h[s].pc = "pal_json"
    /\ LET resp == [h[s].resp EXCEPT !.body = body.body, !.content = body.content]
       IN  h' = [h EXCEPT ![s] = after_get_pal(h[s], resp, body_result(resp))]
    /\ UNCHANGED <<phase, listing, pal_names, ac_eng>>

\* ctx.say returns in reply_with_error; the handler returns Err(err)
PalSayDone(s, delivered) ==
    /\ h[s].pc = "pal_say"
    /\ h' = [h EXCEPT ![s].pc = "done",
                      ![s].ret = [tag |-> "err", val |-> <<>>, err |-> h[s].res.err],
                      ![s].log = IF delivered THEN h[s].log
                                 ELSE Append(h[s].log, <<"Error sending message: ", "say">>)]
    /\ UNCHANGED <<phase, listing, pal_names, ac_eng>>

\* ctx.send returns; the handler returns Ok(()) or the send error
PalSendDone(s, delivered) ==
    /\ h[s].pc = "pal_send"
    /\ h' = [h EXCEPT ![s].pc = "done",
                      ![s].ret = IF delivered
                                 THEN [tag |-> "ok", val |-> <<>>, err |-> NoErr]
                                 ELSE [tag |-> "err", val |-> <<>>,
                                       err |-> [kind |-> "Serenity", detail |-> "send"]],
                      ![s].log = IF delivered THEN h[s].log
                                 ELSE Append(h[s].log, <<"Error sending message: ", "send">>)]
    /\ UNCHANGED <<phase, listing, pal_names, ac_eng>>

----------------------------------------------------------------------------
(* Specifications *)

\* the bot: setup, then the commands of every slot interleaved
Next ==
    \/ Setup(BotListings)
    \/ SetupFail
    \/ \E s \in Slots, q \in BotQueries : AcStart(s, q)
    \/ \E s \in Slots : AcTaskRun(s)
    \/ \E s \in Slots : AcTaskAbort(s)
    \/ \E s \in Slots : AcJoin(s)
    \/ \E s \in Slots, pal \in PalArgs : PalStart(s, pal)
    \/ \E s \in Slots, resp \in Responses : PalResponse(s, resp)
    \/ \E s \in Slots, body \in Bodies : PalBody(s, body)
    \/ \E s \in Slots, d \in BOOLEAN : PalSayDone(s, d)
    \/ \E s \in Slots, d \in BOOLEAN : PalSendDone(s, d)

Spec == Init /\ [][Next]_vars

\* the Name Store and the index over every listing, queried from one slot
NextStore ==
    \/ Setup(Listings(MaxNames))
    \/ SetupFail
    \/ \E q \in Queries : AcStart(1, q)
    \/ AcTaskRun(1)
    \/ AcTaskAbort(1)
    \/ AcJoin(1)

SpecStore == Init /\ [][NextStore]_vars

----------------------------------------------------------------------------
(* Vocabulary of the properties *)

\* an autocomplete_pal call in slot s has returned
AcDone(s) == h[s].cmd = "autocomplete" /\ h[s].pc = "done"

\* get_pal has returned to the pal command in slot s
PalReturned(s) == h[s].cmd = "pal" /\ h[s].pc \in {"pal_say", "pal_send", "done"}

\* the response was a well-formed 200 whose content list is empty
EmptyContent200(s) ==
    /\ h[s].resp.io = "ok"
    /\ h[s].resp.status = "200 OK"
    /\ h[s].resp.body = "json"
    /\ h[s].resp.content = <<>>

\* the State the setup closure built from the listing
StateBuilt ==
    /\ pal_names = SortNames(listing)
    /\ ac_eng = AutoCompleteEngineNew(pal_names)

IsSorted(s) == \A i, j \in 1..Len(s) : i < j => ~StrLess(s[j], s[i])
NoDuplicates(s) == \A i, j \in 1..Len(s) : i # j => s[i] # s[j]
Count(x, s) == Cardinality({i \in 1..Len(s) : s[i] = x})
SameNames(s, u) == \A x \in Range(s) \cup Range(u) : Count(x, s) = Count(x, u)

----------------------------------------------------------------------------
\* C1: an autocomplete query with the empty string returns exactly the Name
\* Store, in its stored sorted order, without spawning the lookup task and
\* without a search of the index.
C1_EmptyQueryReturnsStore ==
    \A s \in Slots :
        (AcDone(s) /\ h[s].arg = <<>>) =>
            /\ h[s].ret.tag = "vec"
            /\ h[s].ret.val = pal_names
            /\ IsSorted(h[s].ret.val)
            /\ SameNames(h[s].ret.val, listing)
            /\ h[s].spawned = 0
            /\ h[s].searched = 0
            /\ h[s].task = NoTask

C1_Witness ==
    \E s \in Slots :
        /\ AcDone(s) /\ h[s].arg = <<>>
        /\ Len(h[s].ret.val) = 3
        /\ listing # pal_names

\* C2: get_pal on a 200 response whose content list is empty fails with
\* MissingContent and returns no record; it returns a record only from a
\* 200 response with non-empty content, and that record is content[0].
C2_EmptyContentIsMissingContent ==
    \A s \in Slots :
        PalReturned(s) =>
            /\ EmptyContent200(s) =>
                    /\ h[s].res.tag = "err"
                    /\ h[s].res.err.kind = "MissingContent"
                    /\ \A i \in 1..Len(h[s].out) : h[s].out[i].kind # "embed"
            /\ h[s].res.tag = "ok" =>
                    /\ h[s].resp.status = "200 OK"
                    /\ Len(h[s].resp.content) > 0
                    /\ h[s].res.pal = h[s].resp.content[1]
                    /\ h[s].res.pal # DefaultPal

C2_Witness ==
    \E s \in Slots :
        PalReturned(s) /\ EmptyContent200(s) /\ h[s].res.err.kind = "MissingContent"

\* C3 as stated: on an empty content list after a well-formed 200 the
\* lookup fails with NoPalFound (NoEntityFound), and the failure is not logged.
C3_Original ==
    \A s \in Slots :
        (PalReturned(s) /\ EmptyContent200(s)) =>
            /\ h[s].res.err.kind = "NoPalFound"
            /\ h[s].log = <<>>

\* C3 as amended: on an empty content list after a well-formed 200 the
\* lookup fails with MissingContent, which is logged as an error at the
\* command boundary like every error get_pal produces; get_pal never
\* produces NoPalFound, the one kind that is not logged.
C3_EmptyContentIsLogged ==
    \A s \in Slots :
        PalReturned(s) =>
            /\ EmptyContent200(s) => h[s].res.err.kind = "MissingContent"
            /\ h[s].res.tag = "err" =>
                    /\ h[s].res.err.kind # "NoPalFound"
                    /\ Len(h[s].log) >= 1
                    /\ h[s].log[1] = Display(h[s].res.err)

C3_Witness ==
    \E s \in Slots :
        /\ PalReturned(s) /\ EmptyContent200(s)
        /\ h[s].log = <<Display(MissingContent)>>

\* C4: whenever get_pal fails inside the pal command, whatever the error
\* kind, the handler sends the user one message "**Error**: <error>" and no
\* embed, returns the error, and the bot keeps running with the slot free
\* for the next command.
C4_FailureRepliedAtBoundary ==
    \A s \in Slots :
        (PalReturned(s) /\ h[s].res.tag = "err") =>
            /\ h[s].pc \in {"pal_say", "done"}
            /\ Len(h[s].out) = 1
            /\ h[s].out[1].kind = "say"
            /\ h[s].out[1].body = <<"**Error**: ">> \o Display(h[s].res.err)
            /\ phase = "running"
            /\ h[s].pc = "done" =>
                    /\ h[s].ret.tag = "err"
                    /\ h[s].ret.err = h[s].res.err
                    /\ \A pal \in PalArgs : ENABLED PalStart(s, pal)
                    /\ \A q \in BotQueries : ENABLED AcStart(s, q)

C4_Witness ==
    \E s \in Slots :
        /\ PalReturned(s) /\ h[s].pc = "done"
        /\ h[s].res.err.kind = "Unexpected"
        /\ h[s].out[1].kind = "say"

\* C5: when the spawned lookup task fails, autocomplete_pal returns an empty
\* list (a value, not an error), writes one log entry, sends nothing to the
\* user, and leaves the shared State as setup built it.
C5_JoinErrorGivesEmptyList ==
    \A s \in Slots :
        (AcDone(s) /\ h[s].task.st = "err") =>
            /\ h[s].ret = [tag |-> "vec", val |-> <<>>, err |-> NoErr]
            /\ h[s].log = <<<<"Error fetching autocomplete: ", "JoinError">>>>
            /\ h[s].out = <<>>
            /\ phase = "running"
            /\ StateBuilt

C5_Witness ==
    \E s \in Slots :
        AcDone(s) /\ h[s].task.st = "err" /\ Len(pal_names) = 3

\* C6: every step of a command handler is taken with setup completed: the
\* Name Store fetched and sorted and the index built over it; before setup,
\* and for ever after a failed setup, no handler takes a step.
C6_NoCommandBeforeSetup ==
    [][(h' # h) => (phase = "running" /\ StateBuilt /\ phase' = "running")]_vars
    /\ [][phase = "failed" => (phase' = "failed" /\ h' = h)]_vars
    /\ [](phase # "running" => \A s \in Slots : h[s] = Fresh)

C6_Witness ==
    /\ phase = "running"
    /\ StateBuilt
    /\ \E s \in Slots : h[s].pc = "done" /\ h[s].cmd = "pal"
    /\ \E s \in Slots : h[s].pc = "done" /\ h[s].cmd = "autocomplete"

\* what a query can return, from the query and the Name Store alone
ExpectedSuggestions(q) ==
    IF Len(q) = 0 THEN {pal_names}
    ELSE autocomplete(AutoCompleteEngineNew(pal_names), q)

\* C7: after startup no step modifies the Name Store or the index, and the
\* list each autocomplete query returns is determined by its own query
\* string and the Name Store (the empty list if its task failed), whatever
\* the other slots are running or ran before.
C7_QueriesIndependent ==
    [][phase = "running" => (pal_names' = pal_names /\ ac_eng' = ac_eng)]_vars
    /\ [](\A s \in Slots :
            AcDone(s) =>
                IF h[s].task.st = "err" THEN h[s].ret.val = <<>>
                ELSE ExpectedSuggestions(h[s].arg) = {h[s].ret.val})

C7_Witness ==
    \E s, u \in Slots :
        /\ AcDone(s) /\ AcDone(u)
        /\ h[s].arg = <<"a", "p">> /\ h[u].arg = <<"a", "p", "p", "l">>
        /\ h[s].ret.val = <<Apex, Apple>>
        /\ h[u].ret.val = <<Apple>>

\* C8 as stated: after startup the Name Store is sorted and holds no name
\* twice, whatever list the listing endpoint returned.
C8_Original ==
    phase = "running" => (IsSorted(pal_names) /\ NoDuplicates(pal_names))

\* C8 as amended: after startup the Name Store is sorted and holds exactly
\* the names the listing endpoint returned, each as many times as the
\* listing held it; it is free of duplicates exactly when the listing was.
C8_SortedSameNames ==
    phase = "running" =>
        /\ IsSorted(pal_names)
        /\ SameNames(pal_names, listing)
        /\ NoDuplicates(pal_names) <=> NoDuplicates(listing)

C8_Witness ==
    /\ phase = "running"
    /\ ~NoDuplicates(listing)
    /\ listing # pal_names
    /\ ~NoDuplicates(pal_names)

\* C9: every call of get_pal sends exactly one HTTP GET, whatever the
\* outcome, and its result goes to the slot that called; a slot that runs
\* no pal command sends none.
C9_OneGetPerCall ==
    \A s \in Slots :
        /\ h[s].cmd = "pal" => h[s].gets = 1
        /\ h[s].cmd # "pal" => (h[s].gets = 0 /\ h[s].res = NoResult)
        /\ PalReturned(s) => h[s].res = get_pal_result(h[s].resp)

C9_Witness ==
    \E s, u \in Slots :
        /\ s # u
        /\ PalReturned(s) /\ h[s].pc = "done" /\ h[s].resp.io = "err"
        /\ h[s].gets = 1
        /\ PalReturned(u) /\ h[u].res.tag = "ok"

----------------------------------------------------------------------------
(* C10: the ranking of non-empty queries *)

\* q, lowercased, occurs in name, lowercased, as a contiguous part
IsPartialOf(q, name) ==
    LET lq == to_lowercase(q)
        ln == to_lowercase(name)
    IN  /\ Len(lq) > 0
        /\ \E i \in 0..(Len(ln) - Len(lq)) :
              \A k \in 1..Len(lq) : ln[i + k] = lq[k]

\* the closeness of a stored name to a query: the sum over the name's words
\* of the word's similarity to the query, where it is above the threshold
\* (the names have at most two words, and the sum of two f64 is the same
\* in either order)
Closeness(name, q) ==
    The({SumScores(DOMAIN scores,
                   SelectSeq(Dedup(SortNames(tokenize(name))),
                             LAMBDA tk : tk \in DOMAIN scores),
                   scores) :
            scores \in {token_scores(AutoCompleteEngineNew(<<name>>), PatternTokens(q))}})

\* some word of the name is more than 0.8 similar to some word of the query
CloseEnough(name, q) ==
    \E tk \in Range(tokenize(name)), pt \in Range(tokenize(q)) :
        FGreater(jaro_winkler(tk, pt), FDivInt(4, 5))

\* an autocomplete call with a non-empty query whose task ran has returned
SearchDone(s) == AcDone(s) /\ Len(h[s].arg) > 0 /\ h[s].task.st = "ok"

\* the two results tests::test_autocomplete asserts
TestCases ==
    /\ autocomplete(AutoCompleteEngineNew(TestNames), <<"a", "p", "p", "l">>)
           = {<<Apple>>}
    /\ autocomplete(AutoCompleteEngineNew(TestNames), <<"a", "p">>)
           = {<<Apex, Apple>>}

\* C10 as stated: the two test results hold, and a non-empty query that is a
\* case-insensitive partial form of a stored name N returns a list that
\* includes N, holds stored names only and is ordered by closeness.
C10_Original ==
    /\ TestCases
    /\ \A s \in Slots :
          SearchDone(s) =>
              /\ \A n \in Range(pal_names) :
                    IsPartialOf(h[s].arg, n) => n \in Range(h[s].ret.val)
              /\ Range(h[s].ret.val) \subseteq Range(pal_names)
              /\ \A i, j \in 1..Len(h[s].ret.val) :
                    i < j => ~FGreater(Closeness(h[s].ret.val[j], h[s].arg),
                                         Closeness(h[s].ret.val[i], h[s].arg))

\* C10 as amended: the two test results hold; a non-empty query returns
\* stored names only, each at most once, ordered by closeness (never a
\* closer name after a less close one), and it includes a stored name N
\* exactly when some word of N has a Jaro-Winkler similarity above 0.8 to
\* some word of the query, compared in lower case; a partial form of N that
\* is not that similar is not returned.
C10_RankedAboveThreshold ==
    /\ TestCases
    /\ \A s \in Slots :
          SearchDone(s) =>
              /\ \A n \in Range(pal_names) :
                    n \in Range(h[s].ret.val) <=> CloseEnough(n, h[s].arg)
              /\ Range(h[s].ret.val) \subseteq Range(pal_names)
              /\ NoDuplicates(h[s].ret.val)
              /\ \A i, j \in 1..Len(h[s].ret.val) :
                    i < j => ~FGreater(Closeness(h[s].ret.val[j], h[s].arg),
                                         Closeness(h[s].ret.val[i], h[s].arg))
              /\ (pal_names = SortNames(TestNames) /\ h[s].arg = <<"a", "p">>)
                    => h[s].ret.val = <<Apex, Apple>>
              /\ (pal_names = SortNames(TestNames) /\ h[s].arg = <<"a", "p", "p", "l">>)
                    => h[s].ret.val = <<Apple>>

C10_Witness ==
    \E s \in Slots :
        /\ SearchDone(s)
        /\ pal_names = SortNames(TestNames)
        /\ h[s].arg = <<"a">>
        /\ IsPartialOf(h[s].arg, Apple)
        /\ h[s].ret.val = <<>>

============================================================================
